---- MODULE Spec2Model ----
(***************************************************************************)
(* X86 shuffle-mask decoders (lib/Target/X86/Utils/X86ShuffleDecode.cpp).  *)
(*                                                                         *)
(* Every decoder is a pure routine that appends lane-source indices to a   *)
(* caller-owned sequence.  A behaviour of this module is one call: Init    *)
(* draws the inputs of the call (vector shape, immediate, byte table and   *)
(* the contents the output sequence already has), one action per decoder   *)
(* runs the whole routine and records how the call ended:                  *)
(*   "done"    the routine returned                                        *)
(*   "assert"  an assert() of the routine failed (process aborted)         *)
(*   "trap"    integer division by zero, outcome 1 (hardware trap)         *)
(*   "hang"    the routine never returns (loop whose exit test is never    *)
(*             met; also outcome 2 of the division by zero, where the      *)
(*             quotient is 0 and the lane loop steps by 0)                 *)
(***************************************************************************)
EXTENDS Integers, Naturals, Sequences, FiniteSets, TLC

VARIABLES VT, Imm, RawMask, pre, ShuffleMask, op, status

vars == <<VT, Imm, RawMask, pre, ShuffleMask, op, status>>

---------------------------------------------------------------------------
(* Bounds of the model *)

\* largest immediate drawn (the instructions carry an 8-bit immediate)
MaxImm == 255
\* longest contents of the output sequence at the time of the call
MaxPre == 1

---------------------------------------------------------------------------
(* External collaborators: sentinel and vector-shape queries *)

SM_SentinelZero == -1

getSizeInBits(vt) == vt.bits
getVectorNumElements(vt) == vt.bits \div vt.elt
getElementSizeInBits(vt) == vt.elt

\* 64-bit (MMX), 128-bit and 256-bit shapes with at least two elements
Widths == {64, 128, 256}
EltSizes == {8, 16, 32, 64}
Shapes == {s \in [bits : Widths, elt : EltSizes] : s.bits \div s.elt >= 2}

---------------------------------------------------------------------------
(* Unsigned bit arithmetic *)

RECURSIVE Shr(_, _)
Shr(x, n) == IF n = 0 THEN x ELSE Shr(x \div 2, n - 1)

Bit(x, n) == Shr(x, n) % 2

Push(M, v) == Append(M, v)

Done(M) == [st |-> "done", M |-> M]

---------------------------------------------------------------------------
(* DecodeINSERTPSMask *)

INSERTPSInVal_NoBias(CountS) == CountS

\* CountS selects which input element to use.
INSERTPSInVal(CountS) == 4 + CountS

\* ZMask zaps values, potentially overriding the CountD elt.
\* ShuffleMask[0..3] are absolute positions of the output sequence.
INSERTPSZap(M, ZMask) ==
  [k \in 1..Len(M) |->
     IF k <= 4 /\ Bit(ZMask, k - 1) = 1 THEN SM_SentinelZero ELSE M[k]]

DecodeINSERTPSMask_ZapFirst(imm, M0) ==
  LET M1 == Push(Push(Push(Push(M0, 0), 1), 2), 3)
      ZMask == imm % 16
      CountD == (imm \div 16) % 4
      CountS == (imm \div 64) % 4
      M2 == INSERTPSZap(M1, ZMask)
  IN  Done([M2 EXCEPT ![CountD + 1] = INSERTPSInVal(CountS)])

DecodeINSERTPSMask(imm, M0) ==
  LET M1 == Push(Push(Push(Push(M0, 0), 1), 2), 3)
      ZMask == imm % 16
      CountD == (imm \div 16) % 4
      CountS == (imm \div 64) % 4
      InVal == INSERTPSInVal(CountS)
      M2 == [M1 EXCEPT ![CountD + 1] = InVal]
  IN  Done(INSERTPSZap(M2, ZMask))

---------------------------------------------------------------------------
(* DecodeMOVHLPSMask, DecodeMOVLHPSMask *)

\* for (i = a; i != b; ++i) push_back(bias + i), with a <= b
RECURSIVE PushRange(_, _, _, _)
PushRange(M, a, b, bias) ==
  IF a = b THEN M ELSE PushRange(Push(M, bias + a), a + 1, b, bias)

DecodeMOVHLPSMask(NElts, M0) ==
  LET M1 == PushRange(M0, NElts \div 2, NElts, NElts)
  IN  Done(PushRange(M1, NElts \div 2, NElts, 0))

DecodeMOVLHPSMask_Short(NElts, M0) ==
  LET M1 == PushRange(M0, 0, NElts \div 2, 0)
  IN  Done(PushRange(M1, 1, NElts \div 2, NElts))

DecodeMOVLHPSMask(NElts, M0) ==
  LET M1 == PushRange(M0, 0, NElts \div 2, 0)
  IN  Done(PushRange(M1, 0, NElts \div 2, NElts))

---------------------------------------------------------------------------
(* DecodePALIGNRMask *)

\* if i+offset is out of this lane then we actually need the other source
PALIGNRBase(i, Offset, NumElts, NumLaneElts) ==
  LET Base == i + Offset
  IN  IF Base >= NumLaneElts THEN Base + (NumElts - NumLaneElts) ELSE Base

RECURSIVE PALIGNRInner(_, _, _, _, _, _)
PALIGNRInner(M, l, i, Offset, NumElts, NumLaneElts) ==
  IF i = NumLaneElts THEN M
  ELSE PALIGNRInner(Push(M, PALIGNRBase(i, Offset, NumElts, NumLaneElts) + l),
                    l, i + 1, Offset, NumElts, NumLaneElts)

RECURSIVE PALIGNROuter(_, _, _, _, _)
PALIGNROuter(M, l, Offset, NumElts, NumLaneElts) ==
  IF l = NumElts THEN M
  ELSE PALIGNROuter(PALIGNRInner(M, l, 0, Offset, NumElts, NumLaneElts),
                    l + NumLaneElts, Offset, NumElts, NumLaneElts)

DecodePALIGNRMask(vt, imm, M0) ==
  LET NumElts == getVectorNumElements(vt)
      Offset == imm * (getElementSizeInBits(vt) \div 8)
      NumLanes == getSizeInBits(vt) \div 128
  IN  IF NumLanes = 0 THEN [st |-> "divzero", M |-> M0]
      ELSE Done(PALIGNROuter(M0, 0, Offset, NumElts, NumElts \div NumLanes))

---------------------------------------------------------------------------
(* DecodePSHUFMask *)

PSHUFReload_Always(NumLaneElts, NewImm, imm) == imm

\* if (NumLaneElts == 4) NewImm = Imm; // reload imm
PSHUFReload(NumLaneElts, NewImm, imm) ==
  IF NumLaneElts = 4 THEN imm ELSE NewImm

RECURSIVE PSHUFInner(_, _, _, _, _)
PSHUFInner(M, NewImm, l, i, NumLaneElts) ==
  IF i = NumLaneElts THEN [M |-> M, NewImm |-> NewImm]
  ELSE PSHUFInner(Push(M, (NewImm % NumLaneElts) + l), NewImm \div NumLaneElts,
                  l, i + 1, NumLaneElts)

RECURSIVE PSHUFOuter(_, _, _, _, _, _)
PSHUFOuter(M, NewImm, l, imm, NumElts, NumLaneElts) ==
  IF l = NumElts THEN M
  ELSE LET r == PSHUFInner(M, NewImm, l, 0, NumLaneElts)
       IN  PSHUFOuter(r.M, PSHUFReload(NumLaneElts, r.NewImm, imm),
                      l + NumLaneElts, imm, NumElts, NumLaneElts)

DecodePSHUFMask(vt, imm, M0) ==
  LET NumElts == getVectorNumElements(vt)
      NumLanes == getSizeInBits(vt) \div 128
  IN  IF NumLanes = 0 THEN [st |-> "divzero", M |-> M0]
      ELSE Done(PSHUFOuter(M0, imm, 0, imm, NumElts, NumElts \div NumLanes))

---------------------------------------------------------------------------
(* DecodePSHUFHWMask, DecodePSHUFLWMask *)

\* four pushes of base + (NewImm & 3), NewImm >>= 2 after each
RECURSIVE PushFields(_, _, _, _)
PushFields(M, NewImm, base, n) ==
  IF n = 0 THEN M
  ELSE PushFields(Push(M, base + (NewImm % 4)), NewImm \div 4, base, n - 1)

RECURSIVE PSHUFHWLoop(_, _, _, _)
PSHUFHWLoop(M, l, imm, NumElts) ==
  IF l = NumElts THEN M
  ELSE PSHUFHWLoop(PushFields(PushRange(M, 0, 4, l), imm, l + 4, 4),
                   l + 8, imm, NumElts)

RECURSIVE PSHUFLWLoop(_, _, _, _)
PSHUFLWLoop(M, l, imm, NumElts) ==
  IF l = NumElts THEN M
  ELSE PSHUFLWLoop(PushRange(PushFields(M, imm, l, 4), 4, 8, l),
                   l + 8, imm, NumElts)

\* l steps by 8 from 0 (modulo 2^32): l != NumElts stays true forever
\* unless NumElts is a multiple of 8
DecodePSHUFHWMask(vt, imm, M0) ==
  LET NumElts == getVectorNumElements(vt)
  IN  IF NumElts % 8 # 0 THEN [st |-> "hang", M |-> M0]
      ELSE Done(PSHUFHWLoop(M0, 0, imm, NumElts))

DecodePSHUFLWMask(vt, imm, M0) ==
  LET NumElts == getVectorNumElements(vt)
  IN  IF NumElts % 8 # 0 THEN [st |-> "hang", M |-> M0]
      ELSE Done(PSHUFLWLoop(M0, 0, imm, NumElts))

---------------------------------------------------------------------------
(* DecodeSHUFPMask *)

RECURSIVE SHUFPInner(_, _, _, _, _, _)
SHUFPInner(M, NewImm, l, s, i, NumLaneElts) ==
  IF i = NumLaneElts \div 2 THEN [M |-> M, NewImm |-> NewImm]
  ELSE SHUFPInner(Push(M, (NewImm % NumLaneElts) + s + l),
                  NewImm \div NumLaneElts, l, s, i + 1, NumLaneElts)

\* each half of a lane comes from different source
RECURSIVE SHUFPSources(_, _, _, _, _, _)
SHUFPSources(M, NewImm, l, s, NumElts, NumLaneElts) ==
  IF s = NumElts * 2 THEN [M |-> M, NewImm |-> NewImm]
  ELSE LET r == SHUFPInner(M, NewImm, l, s, 0, NumLaneElts)
       IN  SHUFPSources(r.M, r.NewImm, l, s + NumElts, NumElts, NumLaneElts)

RECURSIVE SHUFPOuter(_, _, _, _, _, _)
SHUFPOuter(M, NewImm, l, imm, NumElts, NumLaneElts) ==
  IF l = NumElts THEN M
  ELSE LET r == SHUFPSources(M, NewImm, l, 0, NumElts, NumLaneElts)
       IN  SHUFPOuter(r.M, PSHUFReload(NumLaneElts, r.NewImm, imm),
                      l + NumLaneElts, imm, NumElts, NumLaneElts)

DecodeSHUFPMask(vt, imm, M0) ==
  LET NumElts == getVectorNumElements(vt)
      NumLanes == getSizeInBits(vt) \div 128
  IN  IF NumLanes = 0 THEN [st |-> "divzero", M |-> M0]
      ELSE Done(SHUFPOuter(M0, imm, 0, imm, NumElts, NumElts \div NumLanes))

---------------------------------------------------------------------------
(* DecodeUNPCKHMask, DecodeUNPCKLMask *)

\* if (NumLanes == 0) NumLanes = 1;  // Handle MMX
UNPCKNumLanes(vt) ==
  LET NumLanes == getSizeInBits(vt) \div 128
  IN  IF NumLanes = 0 THEN 1 ELSE NumLanes

\* for (i = a; i != e; ++i) { push_back(i); push_back(i+NumElts); }
RECURSIVE UNPCKInner(_, _, _, _)
UNPCKInner(M, i, e, NumElts) ==
  IF i = e THEN M
  ELSE UNPCKInner(Push(Push(M, i), i + NumElts), i + 1, e, NumElts)

RECURSIVE UNPCKHOuter(_, _, _, _)
UNPCKHOuter(M, l, NumElts, NumLaneElts) ==
  IF l = NumElts THEN M
  ELSE UNPCKHOuter(UNPCKInner(M, l + (NumLaneElts \div 2), l + NumLaneElts,
                              NumElts),
                   l + NumLaneElts, NumElts, NumLaneElts)

RECURSIVE UNPCKLOuter(_, _, _, _)
UNPCKLOuter(M, l, NumElts, NumLaneElts) ==
  IF l = NumElts THEN M
  ELSE UNPCKLOuter(UNPCKInner(M, l, l + (NumLaneElts \div 2), NumElts),
                   l + NumLaneElts, NumElts, NumLaneElts)

DecodeUNPCKHMask(vt, M0) ==
  LET NumElts == getVectorNumElements(vt)
  IN  Done(UNPCKHOuter(M0, 0, NumElts, NumElts \div UNPCKNumLanes(vt)))

DecodeUNPCKLMask(vt, M0) ==
  LET NumElts == getVectorNumElements(vt)
  IN  Done(UNPCKLOuter(M0, 0, NumElts, NumElts \div UNPCKNumLanes(vt)))

---------------------------------------------------------------------------
(* DecodeVPERM2X128Mask *)

VPERM2X128NotShuffle_Bit7Only(imm) == Bit(imm, 7) = 1

\* if (Imm & 0x88) return; // Not a shuffle
VPERM2X128NotShuffle(imm) == Bit(imm, 3) = 1 \/ Bit(imm, 7) = 1

VPERM2X128HalfBegin_Shift2(imm, l, HalfSize) == (Shr(imm, l * 2) % 4) * HalfSize

\* HalfBegin = ((Imm >> (l*4)) & 0x3) * HalfSize
VPERM2X128HalfBegin(imm, l, HalfSize) == (Shr(imm, l * 4) % 4) * HalfSize

RECURSIVE VPERM2X128Loop(_, _, _, _)
VPERM2X128Loop(M, l, imm, HalfSize) ==
  IF l = 2 THEN M
  ELSE LET HalfBegin == VPERM2X128HalfBegin(imm, l, HalfSize)
       IN  VPERM2X128Loop(PushRange(M, HalfBegin, HalfBegin + HalfSize, 0),
                          l + 1, imm, HalfSize)

DecodeVPERM2X128Mask(vt, imm, M0) ==
  IF VPERM2X128NotShuffle(imm) THEN Done(M0)
  ELSE Done(VPERM2X128Loop(M0, 0, imm, getVectorNumElements(vt) \div 2))

---------------------------------------------------------------------------
(* DecodePSHUFBMask, both forms *)

PSHUFBBase_Zero(i) == 0

\* For AVX vectors with 32 bytes the base of the shuffle is the half of the
\* vector we're inside.
PSHUFBBase(i) == IF i < 16 THEN 0 ELSE 16

PSHUFBZeroed_Bit6(Element) == Bit(Element, 6) = 1

\* If the high bit (7) of the byte is set, the element is zeroed.
PSHUFBZeroed(Element) == Bit(Element, 7) = 1

\* typed form: for (i = 0; i < NumElements; ++i)
RECURSIVE PSHUFBConstLoop(_, _, _, _)
PSHUFBConstLoop(C, M, i, NumElements) ==
  IF ~(i < NumElements) THEN Done(M)
  ELSE LET Base == PSHUFBBase(i)
           Element == C[i + 1]
       IN  IF PSHUFBZeroed(Element)
           THEN PSHUFBConstLoop(C, Push(M, SM_SentinelZero), i + 1, NumElements)
           ELSE LET Index == Base + Element
                IN  IF ~(Index >= 0 /\ Index < NumElements)
                    THEN [st |-> "assert", M |-> M]
                    ELSE PSHUFBConstLoop(C, Push(M, Index), i + 1, NumElements)

\* C is a constant vector of i8: the two type asserts and the element-count
\* assert hold by construction of the inputs; the size assert can fail
DecodePSHUFBMaskConst(C, M0) ==
  LET NumElements == Len(C)
  IN  IF ~(NumElements = 16 \/ NumElements = 32)
      THEN [st |-> "assert", M |-> M0]
      ELSE PSHUFBConstLoop(C, M0, 0, NumElements)

\* raw form: for (i = 0, e = RawMask.size(); i < e; ++i)
RECURSIVE PSHUFBRawLoop(_, _, _, _)
PSHUFBRawLoop(Raw, M, i, e) ==
  IF ~(i < e) THEN Done(M)
  ELSE LET Mi == Raw[i + 1]
           Base == PSHUFBBase(i)
       IN  IF PSHUFBZeroed(Mi)
           THEN PSHUFBRawLoop(Raw, Push(M, SM_SentinelZero), i + 1, e)
           ELSE LET Index == Base + Mi
                IN  IF ~(Index >= 0 /\ Index < Len(Raw))
                    THEN [st |-> "assert", M |-> M]
                    ELSE PSHUFBRawLoop(Raw, Push(M, Index), i + 1, e)

DecodePSHUFBMaskRaw(Raw, M0) == PSHUFBRawLoop(Raw, M0, 0, Len(Raw))

---------------------------------------------------------------------------
(* DecodeBLENDMask, DecodeVPERMMask *)

RECURSIVE BLENDLoop(_, _, _, _)
BLENDLoop(M, i, imm, NumElements) ==
  IF ~(i < NumElements) THEN M
  ELSE BLENDLoop(Push(M, IF Bit(imm, i) = 1 THEN NumElements + i ELSE i),
                 i + 1, imm, NumElements)

DecodeBLENDMask(vt, imm, M0) ==
  Done(BLENDLoop(M0, 0, imm, getVectorNumElements(vt)))

RECURSIVE VPERMLoop(_, _, _)
VPERMLoop(M, i, imm) ==
  IF i = 4 THEN M ELSE VPERMLoop(Push(M, Shr(imm, 2 * i) % 4), i + 1, imm)

DecodeVPERMMask(imm, M0) == Done(VPERMLoop(M0, 0, imm))

---------------------------------------------------------------------------
(* Inputs of a call *)

\* contents of the caller's output sequence when the decoder is entered
Prefixes == {[k \in 1..n |-> 0] : n \in 0..MaxPre}

\* byte tables: every entry is Filler except one position holding a chosen byte
TableLens == {8, 16, 32}
TableVals == {0, 5, 15, 16, 31, 127, 128, 133, 255}
Fillers == {0, 128}
Tables ==
  {[k \in 1..n |-> IF k = p THEN v ELSE f] :
     n \in TableLens, p \in 1..32, v \in TableVals, f \in Fillers}

DefaultVT == [bits |-> 128, elt |-> 32]

Init ==
  /\ \/ VT \in Shapes /\ Imm \in 0..MaxImm /\ RawMask = <<>>
     \/ VT = DefaultVT /\ Imm = 0 /\ RawMask \in Tables
  /\ pre \in Prefixes
  /\ ShuffleMask = pre
  /\ op = "none"
  /\ status = "idle"

\* the decoder ends: a division by zero is undefined behaviour, the routine
\* either traps or goes on with a zero lane width and never leaves its loop
Return(name, r) ==
  /\ status = "idle"
  /\ op' = name
  /\ ShuffleMask' = r.M
  /\ status' \in (IF r.st = "divzero" THEN {"trap", "hang"} ELSE {r.st})
  /\ UNCHANGED <<VT, Imm, RawMask, pre>>

CallINSERTPS == Return("INSERTPS", DecodeINSERTPSMask(Imm, ShuffleMask))
CallMOVHLPS == Return("MOVHLPS", DecodeMOVHLPSMask(getVectorNumElements(VT), ShuffleMask))
CallMOVLHPS == Return("MOVLHPS", DecodeMOVLHPSMask(getVectorNumElements(VT), ShuffleMask))
CallPALIGNR == Return("PALIGNR", DecodePALIGNRMask(VT, Imm, ShuffleMask))
CallPSHUF == Return("PSHUF", DecodePSHUFMask(VT, Imm, ShuffleMask))
CallPSHUFHW == Return("PSHUFHW", DecodePSHUFHWMask(VT, Imm, ShuffleMask))
CallPSHUFLW == Return("PSHUFLW", DecodePSHUFLWMask(VT, Imm, ShuffleMask))
CallSHUFP == Return("SHUFP", DecodeSHUFPMask(VT, Imm, ShuffleMask))
CallUNPCKH == Return("UNPCKH", DecodeUNPCKHMask(VT, ShuffleMask))
CallUNPCKL == Return("UNPCKL", DecodeUNPCKLMask(VT, ShuffleMask))
CallVPERM2X128 == Return("VPERM2X128", DecodeVPERM2X128Mask(VT, Imm, ShuffleMask))
CallPSHUFBConst == Return("PSHUFBConst", DecodePSHUFBMaskConst(RawMask, ShuffleMask))
CallPSHUFBRaw == Return("PSHUFBRaw", DecodePSHUFBMaskRaw(RawMask, ShuffleMask))
CallBLEND == Return("BLEND", DecodeBLENDMask(VT, Imm, ShuffleMask))
CallVPERM == Return("VPERM", DecodeVPERMMask(Imm, ShuffleMask))

Next ==
  \/ CallINSERTPS
  \/ CallMOVHLPS
  \/ CallMOVLHPS
  \/ CallPALIGNR
  \/ CallPSHUF
  \/ CallPSHUFHW
  \/ CallPSHUFLW
  \/ CallSHUFP
  \/ CallUNPCKH
  \/ CallUNPCKL
  \/ CallVPERM2X128
  \/ CallPSHUFBConst
  \/ CallPSHUFBRaw
  \/ CallBLEND
  \/ CallVPERM

Spec == Init /\ [][Next]_vars

---------------------------------------------------------------------------
(* Vocabulary of the properties *)

\* the entries the call appended to the output sequence
Appended == SubSeq(ShuffleMask, Len(pre) + 1, Len(ShuffleMask))

Returned(name) == op = name /\ status = "done"

\* k-th digit (k = 0 is the lowest) of x written in base b
RECURSIVE Digit(_, _, _)
Digit(x, b, k) == IF k = 0 THEN x % b ELSE Digit(x \div b, b, k - 1)

ReservedBitSet == (Imm \div 8) % 2 = 1 \/ (Imm \div 128) % 2 = 1

\* lane count every decoder appends when it returns a full mask
FullLength ==
  CASE op \in {"INSERTPS", "VPERM"} -> 4
    [] op \in {"PSHUFBConst", "PSHUFBRaw"} -> Len(RawMask)
    [] OTHER -> VT.bits \div VT.elt

InRange(M) ==
  \A k \in 1..Len(M) : M[k] = SM_SentinelZero \/ (0 <= M[k] /\ M[k] < 2 * Len(M))

---------------------------------------------------------------------------
(* C1: mask length *)

---------------------------------------------------------------------------
(* C2: index range *)

\* C2: when a decoder returns, every appended entry that is not the zero
\* sentinel lies in [0, 2*L), L the number of entries appended.
C2_IndexRange ==
  (status = "done" /\ pre = <<>>) => InRange(ShuffleMask)

---------------------------------------------------------------------------
(* C3, C4: DecodeINSERTPSMask *)

\* C3: the zero-mask is applied after the insert: lane i is the sentinel
\* whenever bit i of the low nibble is set, also for i = CountD; a lane whose
\* bit is clear holds 4 + CountS if it is lane CountD and i otherwise.
C3_ZeroMaskAfterInsert ==
  (Returned("INSERTPS") /\ pre = <<>>) =>
    LET CountD == (Imm \div 16) % 4
        CountS == (Imm \div 64) % 4
    IN  /\ Len(ShuffleMask) = 4
        /\ \A i \in 0..3 :
             ShuffleMask[i + 1] =
               (IF (Imm \div (2 ^ i)) % 2 = 1 THEN SM_SentinelZero
                ELSE IF i = CountD THEN 4 + CountS ELSE i)
        /\ (Imm % 16 = 15 =>
              ShuffleMask = <<SM_SentinelZero, SM_SentinelZero,
                              SM_SentinelZero, SM_SentinelZero>>)

\* CountD = 1 and ZMask = 0b0010: the zero-mask overrides the inserted lane
C3_Witness ==
  /\ Returned("INSERTPS")
  /\ pre = <<>>
  /\ Imm = 210
  /\ ShuffleMask = <<0, SM_SentinelZero, 2, 3>>

\* C4 (as stated): immediate 0 yields the identity mask [0,1,2,3].
C4_ImmZeroIdentity ==
  (Returned("INSERTPS") /\ pre = <<>> /\ Imm = 0) => ShuffleMask = <<0, 1, 2, 3>>

\* C4 (amended): immediate 0 yields [4,1,2,3]: CountD = 0 and CountS = 0, so
\* lane 0 takes element 0 of the second source and lanes 1..3 keep the identity.
C4_ImmZeroInsertsLane0 ==
  (Returned("INSERTPS") /\ pre = <<>> /\ Imm = 0) => ShuffleMask = <<4, 1, 2, 3>>

C4_Witness ==
  /\ Returned("INSERTPS")
  /\ pre = <<>>
  /\ Imm = 0
  /\ Len(ShuffleMask) = 4
  /\ ShuffleMask[1] = 4

---------------------------------------------------------------------------
(* C5, C6: DecodeVPERM2X128Mask *)

\* C5: the call always returns; with bit 3 or bit 7 of the immediate set it
\* appends nothing and leaves the output sequence as it was, otherwise it
\* appends NumElts entries after the old contents; so, called with an empty
\* sequence, the result is empty exactly when a reserved bit is set.
C5_EmptyIffReserved ==
  (op = "VPERM2X128") =>
    /\ status = "done"
    /\ ReservedBitSet => ShuffleMask = pre
    /\ ~ReservedBitSet =>
         /\ Len(ShuffleMask) = Len(pre) + (VT.bits \div VT.elt)
         /\ SubSeq(ShuffleMask, 1, Len(pre)) = pre
    /\ pre = <<>> => (ShuffleMask = <<>> <=> ReservedBitSet)

C5_Witness ==
  /\ Returned("VPERM2X128")
  /\ VT = [bits |-> 256, elt |-> 32]
  /\ Imm = 128
  /\ pre = <<>>
  /\ ShuffleMask = <<>>

\* C6 (as stated): immediate 0x20 on the 8-lane shape yields [4,5,6,7,0,1,2,3].
C6_Imm20Swapped ==
  (Returned("VPERM2X128") /\ pre = <<>> /\ Imm = 32
     /\ VT = [bits |-> 256, elt |-> 32])
    => ShuffleMask = <<4, 5, 6, 7, 0, 1, 2, 3>>

\* C6 (amended): destination half l (l = 0, 1) is a verbatim copy of the
\* source range of HalfSize entries starting at HalfSize times the 2-bit field
\* at immediate bits [4l, 4l+1]; immediate 0x20 on the 8-lane shape therefore
\* yields [0,1,2,3,8,9,10,11].
C6_HalfSelect ==
  (Returned("VPERM2X128") /\ ~ReservedBitSet) =>
    LET HalfSize == (VT.bits \div VT.elt) \div 2
    IN  /\ Len(Appended) = 2 * HalfSize
        /\ \A l \in 0..1 : \A j \in 0..(HalfSize - 1) :
             Appended[l * HalfSize + j + 1] =
               ((Imm \div (16 ^ l)) % 4) * HalfSize + j
        /\ (Imm = 32 /\ VT = [bits |-> 256, elt |-> 32])
             => Appended = <<0, 1, 2, 3, 8, 9, 10, 11>>

C6_Witness ==
  /\ Returned("VPERM2X128")
  /\ VT = [bits |-> 256, elt |-> 32]
  /\ Imm = 32
  /\ pre = <<>>
  /\ ShuffleMask = <<0, 1, 2, 3, 8, 9, 10, 11>>

---------------------------------------------------------------------------
(* C7: DecodePSHUFBMask *)

\* C7: both forms decode table position i alike: bit 7 set gives the zero
\* sentinel; otherwise the entry's low 7 bits plus 0 (i < 16) or 16 (i >= 16);
\* the call aborts on an assertion exactly when some such index is outside
\* [0, TableLength), or, for the typed form, when the table length is neither
\* 16 nor 32; it never returns a wrapped or truncated index.
C7_PSHUFBRule ==
  (op \in {"PSHUFBConst", "PSHUFBRaw"}) =>
    LET n == Len(RawMask)
        Index(k) == (IF k - 1 >= 16 THEN 16 ELSE 0) + (RawMask[k] % 128)
        OutOfBounds == \E k \in 1..n : RawMask[k] < 128 /\ Index(k) >= n
        BadLength == op = "PSHUFBConst" /\ n \notin {16, 32}
    IN  /\ status \in {"done", "assert"}
        /\ status = "assert" <=> (OutOfBounds \/ BadLength)
        /\ status = "done" =>
             /\ Len(Appended) = n
             /\ \A k \in 1..n :
                  Appended[k] =
                    (IF RawMask[k] >= 128 THEN SM_SentinelZero ELSE Index(k))

\* 32-entry table, value 5 at position 20 gives 21
C7_Witness ==
  /\ Returned("PSHUFBRaw")
  /\ Len(RawMask) = 32
  /\ RawMask[21] = 5
  /\ pre = <<>>
  /\ ShuffleMask[21] = 21

---------------------------------------------------------------------------
(* C8: DecodePALIGNRMask *)

\* C8: within each 128-bit lane starting at element l, destination lane i
\* takes source index i + Offset/elementSize = i + Imm (Offset being
\* Imm * elementByteSize); a value not below the lane width has the lane
\* width subtracted and NumElts added; then l is added.  For every element
\* size and every immediate.
C8_PALIGNRElementOffset ==
  Returned("PALIGNR") =>
    LET NumElts == VT.bits \div VT.elt
        LaneElts == NumElts \div (VT.bits \div 128)
        Src(i) == IF i + Imm >= LaneElts
                  THEN i + Imm - LaneElts + NumElts ELSE i + Imm
    IN  /\ Len(Appended) = NumElts
        /\ \A e \in 0..(NumElts - 1) :
             Appended[e + 1] = Src(e % LaneElts) + (e \div LaneElts) * LaneElts

---------------------------------------------------------------------------
(* C9: reload of the immediate in DecodePSHUFMask and DecodeSHUFPMask *)

\* C9: with 4 lanes per 128-bit group every group decodes the same base-4
\* digits of the immediate (entry j of a group takes digit j); with any other
\* lane width the e-th entry of the whole mask takes the e-th base-LaneElts
\* digit, the immediate draining across group boundaries.  SHUFP biases the
\* upper half of every group into the second source.
C9_ReloadOnlyForFourLanes ==
  (Returned("PSHUF") \/ Returned("SHUFP")) =>
    LET NumElts == VT.bits \div VT.elt
        LaneElts == NumElts \div (VT.bits \div 128)
        Field(e) == IF LaneElts = 4 THEN Digit(Imm, 4, e % 4)
                    ELSE Digit(Imm, LaneElts, e)
        Bias(e) == IF op = "SHUFP" /\ (e % LaneElts) >= (LaneElts \div 2)
                   THEN NumElts ELSE 0
    IN  /\ Len(Appended) = NumElts
        /\ \A e \in 0..(NumElts - 1) :
             Appended[e + 1] = Field(e) + Bias(e) + (e \div LaneElts) * LaneElts

\* two lanes per group, two groups: the second group reads digits 2 and 3
C9_Witness ==
  /\ Returned("PSHUF")
  /\ VT = [bits |-> 256, elt |-> 64]
  /\ Imm = 8
  /\ pre = <<>>
  /\ ShuffleMask = <<0, 0, 2, 3>>

---------------------------------------------------------------------------
(* C10: shapes narrower than 128 bits *)

\* C10: PALIGNR, PSHUF, SHUFP, UNPCKH and UNPCKL treat a shape narrower than
\* 128 bits as one lane: the call returns and has appended NumElts entries.
C10_NarrowShapeOneLane ==
  (op \in {"PALIGNR", "PSHUF", "SHUFP", "UNPCKH", "UNPCKL"} /\ VT.bits < 128) =>
    /\ status = "done"
    /\ Len(Appended) = VT.bits \div VT.elt

====
